---- MODULE Spec2Model ----
(***************************************************************************)
(* PDF question scanner: the credential rotator and inference gateway      *)
(* (class GeminiRoundRobin), the response parser (parseGeminiResponse),    *)
(* the page convergence loop (processPageWithExtraction) and the document  *)
(* orchestrator (processPdfs).                                             *)
(*                                                                         *)
(* Two specifications share the gateway actions:                           *)
(*   Spec         the application: processPdfs run on one document;        *)
(*   SpecRotator  the class GeminiRoundRobin on its own, built from any    *)
(*                key list and driven by any sequence of its methods.      *)
(***************************************************************************)
EXTENDS Integers, Sequences, FiniteSets, TLC

(* ------------------------------ bounds -------------------------------- *)

\* pages of the document (images.length ranges over 0..MaxPages)
MaxPages == 2
\* API key fields filled in the form before processPdfs starts
MaxKeyFields == 2
\* length of the key list handed to the constructor in SpecRotator
MaxKeys == 3
\* the call counters nCalls and nReqs stop counting here
MaxCalls == 5
\* questions the model transcribes from one page image
MaxQuestions == 2
\* largest ceiling (seconds) waitForNetwork is called with when it is run on its own
MaxWaitSeconds == 5
\* elements of the JSON array the parser is run on in SpecParser
MaxElems == 2
\* files of the list in SpecBatch, and the pages they have together
MaxFiles == 2
BatchPages == 1

(* ------------------------- program constants -------------------------- *)

\* analyzeImage(imageData, prompt, retries = 3)
Retries == 3
\* const maxAttempts = isRetry ? 8 : 6
FirstPassAttempts == 6
RetryPassAttempts == 8
\* if (verificationScore >= 99)
PerfectScore == 99
\* the top of the verifier's scale (README: "verifies accuracy (0-100 score)")
FullScore == 100
\* else if (verificationScore >= 95 && !questionMismatch)
AcceptScore == 95
\* verificationScore = Math.max(0, verificationScore - 20)
MismatchPenalty == 20
\* waitForNetwork: setTimeout(resolve, 2000) between two polls of navigator.onLine
PollIntervalMs == 2000
\* 'Keys with 15+ consecutive errors are temporarily disabled'
DisableAfter == 15
\* waitForNetwork: setTimeout(resolve, 1000) once navigator.onLine is seen
SettleMs == 1000

(* ------------------------------ values -------------------------------- *)

\* key strings typed in the form: blank ones and usable ones
BlankKeys == {"", " "}
UsableKeys == {"k1", "k2", "k3", "k4"}
KeyName(n) == CASE n = 1 -> "k1" [] n = 2 -> "k2" [] n = 3 -> "k3" [] OTHER -> "k4"

\* key.trim() !== ''
IsBlankKey(key) == key \in BlankKeys

\* (mutation of FilterKeys: the constructor keeps every key)
FilterKeysKeepAll(keys) == keys

RECURSIVE FilterKeys(_)
\* apiKeys.filter(key => key.trim() !== '')
FilterKeys(keys) ==
    IF keys = <<>> THEN <<>>
    ELSE IF IsBlankKey(Head(keys)) THEN FilterKeys(Tail(keys))
         ELSE <<Head(keys)>> \o FilterKeys(Tail(keys))

Max(a, b) == IF a >= b THEN a ELSE b

\* a question statement as printed on a page; name "" is the empty string
Stmt(p, n) == [page |-> p, name |-> n]
EmptyStmt == Stmt(0, "")
\* the options member of a raw JSON element: absent/null, or an array
NullOptions == [isNull |-> TRUE, items |-> <<>>]
Options(items) == [isNull |-> FALSE, items |-> items]

\* one element of the JSON payload
Elem(type, stmt, opts) ==
    [kind |-> "object", question_type |-> type, question_statement |-> stmt,
     options |-> opts]
NullElem == [kind |-> "null", question_type |-> "", question_statement |-> EmptyStmt,
             options |-> NullOptions]
\* a number, string or boolean element: reading a property of it gives undefined
ScalarElem == [kind |-> "scalar", question_type |-> "", question_statement |-> EmptyStmt,
               options |-> NullOptions]

\* a raw model text: how the payload is wrapped and what JSON value it is
\*   wrap: "bare", "fence" (```json ... ```), "prose" (stray words around),
\*         "blank" (empty or whitespace only)
\*   kind: "array", "object", "null", "scalar", "invalid"
Text(wrap, kind, elems) == [wrap |-> wrap, kind |-> kind, elems |-> elems]
BlankText == Text("blank", "invalid", <<>>)
GarbageText == Text("bare", "invalid", <<>>)

\* !text || text.trim().length === 0
IsEmptyText(t) == t.wrap = "blank"

(* ------------------------------ state --------------------------------- *)

VARIABLES
    \* App state / constructor argument
    apiKeys,              \* the key strings of the form (blank ones included)
    questionTypes,        \* the question types of the form, each enabled or not
    autoSave,             \* the auto-save box of the form, as processPdfs reads it
    pdfFiles,             \* the files of the list before and after pdfFile
    alert,                \* the alert processPdfs shows for pdfFile
    \* GeminiRoundRobin
    clients,              \* this.clients: one client per retained key, named by its key
    currentIndex,         \* this.currentIndex
    gw,                   \* the gateway method being executed and its position
    ret,                  \* what the gateway method returned or threw to its caller
    \* processPdfs
    pc,                   \* position of processPdfs / processPageWithExtraction
    pdfStatus,            \* pdfFile.status
    numPages,             \* images.length
    pageI,                \* i of the first-pass loop (0-based)
    retryI,               \* position in retryPages of the retry loop (1-based; 0 before it)
    retryPages,           \* retryPages: the 0-based indices pushed
    skippedPages,         \* skippedPages: the 1-based page numbers pushed
    extractedQuestions,   \* the output sequence (setExtractedQuestions)
    result,               \* the value returned by processPageWithExtraction
    \* processPageWithExtraction
    pg,                   \* its parameters and locals
    \* history
    hist

rotVars == <<apiKeys, clients, currentIndex>>
gwVars == <<gw, ret>>
docVars == <<pdfStatus, numPages, pageI, retryI, retryPages, skippedPages,
             extractedQuestions, result>>
vars == <<apiKeys, questionTypes, autoSave, pdfFiles, alert, clients, currentIndex, gw, ret, pc, pdfStatus, numPages, pageI,
          retryI, retryPages, skippedPages, extractedQuestions, result, pg, hist>>

(* ------------------------- question types ----------------------------- *)

\* DEFAULT_QUESTION_TYPES
QuestionTypes ==
    << [type |-> "MCQ", enabled |-> TRUE, correct_marks |-> 4, incorrect_marks |-> -1,
        skipped_marks |-> 0, partial_marks |-> 0, time_minutes |-> 3],
       [type |-> "MSQ", enabled |-> TRUE, correct_marks |-> 4, incorrect_marks |-> -2,
        skipped_marks |-> 0, partial_marks |-> 1, time_minutes |-> 3],
       [type |-> "NAT", enabled |-> TRUE, correct_marks |-> 4, incorrect_marks |-> 0,
        skipped_marks |-> 0, partial_marks |-> 0, time_minutes |-> 3],
       [type |-> "SUB", enabled |-> TRUE, correct_marks |-> 10, incorrect_marks |-> 0,
        skipped_marks |-> 0, partial_marks |-> 2, time_minutes |-> 15] >>

\* year of the PDF file: new Date().getFullYear() at upload
PdfYear == 2025

\* questionTypes.find(t => t.type === q.question_type && t.enabled): its index, 0 if none
FindType(type) ==
    LET hits == {k \in 1..Len(questionTypes) :
                    questionTypes[k].type = type /\ questionTypes[k].enabled}
    IN  IF hits = {} THEN 0 ELSE CHOOSE k \in hits : \A j \in hits : k <= j

\* the ExtractedQuestion built for one element (the selection fields of the form,
\* course/slot/part, are copied from the UI and are left out)
MakeQuestion(q, year) ==
    LET qt == questionTypes[FindType(q.question_type)]
    IN  [question_type |-> q.question_type,
         question_statement |-> q.question_statement,
         options |-> q.options,
         year |-> year,
         correct_marks |-> qt.correct_marks,
         incorrect_marks |-> qt.incorrect_marks,
         skipped_marks |-> qt.skipped_marks,
         partial_marks |-> qt.partial_marks,
         time_minutes |-> qt.time_minutes,
         categorized |-> FALSE]

\* q.question_type && q.question_statement
HasTypeAndStatement(q) ==
    q.kind = "object" /\ q.question_type # "" /\ q.question_statement.name # ""

RECURSIVE MapQuestions(_, _)
\* .filter(...).map(...).filter(q => q !== null)
MapQuestions(elems, year) ==
    IF elems = <<>> THEN <<>>
    ELSE LET q == Head(elems)
             rest == MapQuestions(Tail(elems), year)
         IN  IF HasTypeAndStatement(q) /\ FindType(q.question_type) # 0
             THEN <<MakeQuestion(q, year)>> \o rest
             ELSE rest

\* reading q.question_type of a null element raises a TypeError
HasNullElem(elems) == \E k \in 1..Len(elems) : elems[k].kind = "null"

\* jsonStr.replace(/```json\n?/g, '').replace(/```\n?/g, ''): the fences are removed,
\* anything else around the payload stays
StripFences(response) ==
    [response EXCEPT !.wrap = IF @ = "fence" THEN "bare" ELSE @]

\* JSON.parse(jsonStr): a SyntaxError unless the string is one JSON value
JsonParse(jsonStr) ==
    IF jsonStr.wrap # "bare" \/ jsonStr.kind = "invalid"
    THEN [threw |-> TRUE, isArray |-> FALSE, items |-> <<>>]
    ELSE [threw |-> FALSE, isArray |-> jsonStr.kind = "array", items |-> jsonStr.elems]

\* (mutation of QuestionsArray: a value that is not an array is ignored)
QuestionsArrayOfArraysOnly(parsed) == IF parsed.isArray THEN parsed.items ELSE <<>>

\* Array.isArray(parsed) ? parsed : [parsed]
QuestionsArray(parsed) ==
    IF parsed.isArray THEN parsed.items ELSE <<parsed.items[1]>>

\* the try block: its value, or the exception it ends with
ParseTry(response, year) ==
    LET parsed == JsonParse(StripFences(response))
    IN  IF parsed.threw
        THEN [threw |-> TRUE, error |-> "SyntaxError", value |-> <<>>]
        ELSE LET questionsArray == QuestionsArray(parsed)
             IN  IF Len(questionsArray) = 0
                 THEN [threw |-> FALSE, error |-> "none", value |-> <<>>]
                 ELSE IF HasNullElem(questionsArray)
                 THEN [threw |-> TRUE, error |-> "TypeError", value |-> <<>>]
                 ELSE [threw |-> FALSE, error |-> "none",
                       value |-> MapQuestions(questionsArray, year)]

\* (mutation of ParseCatch: no catch block, the exception leaves the parser)
ParseCatchRethrows(r) == r

\* catch (error) { return [] }
ParseCatch(r) ==
    IF r.threw THEN [threw |-> FALSE, error |-> "none", value |-> <<>>] ELSE r

\* parseGeminiResponse(response, year)
parseGeminiResponse(response, year) == ParseCatch(ParseTry(response, year)).value

(* --------------------------- GeminiRoundRobin -------------------------- *)

Ops == {"analyze", "verify", "fix", "count"}

\* errors by their message
\*   "timeout"   'Network connection timeout after 300 seconds' (waitForNetwork)
\*   "nokeys"    'No valid API keys provided' (getNextClient)
\*   "empty"     'Empty response from Gemini' (analyzeImage, fixExtraction)
\*   "fetch"     a failed request whose message names fetch/network
\*   "api"       any other failed request
\*   "allfailed" 'All API keys failed' (analyzeImage, no slot was tried)
RequestErrors == {"fetch", "api"}

\* errorMessage.includes('fetch') || .includes('network') || ...
MessageNamesNetwork(err) == err \in {"timeout", "fetch"}

\* isNetworkError(error): the message test, or !navigator.onLine
isNetworkError(err, online) == MessageNamesNetwork(err) \/ ~online

\* this.clients[this.currentIndex]
ClientAt(cl, idx) == IF idx \in 0..(Len(cl) - 1) THEN cl[idx + 1] ELSE "undefined"

\* (mutations of NextIndex: a cursor that skips a client, one that is not wrapped,
\* one that is not advanced)
NextIndexSkip(idx, k) == (idx + 2) % k
NextIndexNoWrap(idx, k) == idx + 1
NextIndexStuck(idx, k) == idx

\* (this.currentIndex + 1) % this.clients.length
NextIndex(idx, k) == (idx + 1) % k

\* getNextClient(): throws on an empty pool, else the client at the cursor and the
\* advanced cursor
getNextClient(cl, idx) ==
    IF Len(cl) = 0
    THEN [threw |-> TRUE, client |-> "undefined", pos |-> idx, index |-> idx]
    ELSE [threw |-> FALSE, client |-> ClientAt(cl, idx), pos |-> idx,
          index |-> NextIndex(idx, Len(cl))]

\* (mutation of WaitLoop: the loop returns without reading navigator.onLine)
WaitLoopBlind(online, now, maxWaitMs) ==
    IF now < maxWaitMs
    THEN [threw |-> FALSE, elapsed |-> now + SettleMs, reads |-> 0]
    ELSE [threw |-> TRUE, elapsed |-> now, reads |-> 0]

RECURSIVE WaitLoop(_, _, _)
\* the while loop of waitForNetwork at Date.now() - startTime = now, having read
\* navigator.onLine at every earlier poll; online[t] is navigator.onLine t seconds
\* after the start
WaitLoop(online, now, maxWaitMs) ==
    IF now < maxWaitMs
    THEN IF online[now \div 1000]
         THEN [threw |-> FALSE, elapsed |-> now + SettleMs,
               reads |-> (now \div PollIntervalMs) + 1]
         ELSE WaitLoop(online, now + PollIntervalMs, maxWaitMs)
    ELSE [threw |-> TRUE, elapsed |-> now, reads |-> now \div PollIntervalMs]

\* waitForNetwork(maxWaitSeconds)
waitForNetwork(online, maxWaitSeconds) == WaitLoop(online, 0, maxWaitSeconds * 1000)

\* the frame of a gateway method
\*   st: "idle", "wait" (await waitForNetwork() in the try block), "flight" (request
\*       issued, awaiting the response), "catchwait" (await waitForNetwork() in the
\*       catch block)
\*   wait: how the await waitForNetwork() before the request in flight ended
IdleGw == [op |-> "none", st |-> "idle", i |-> 0, lastError |-> "none", image |-> 0,
           client |-> "none", wait |-> "none"]
\* a waitForNetwork run on its own: its arguments and what it did
NoWait == [online |-> <<>>, maxWaitSeconds |-> 0, elapsed |-> 0, reads |-> 0]
\* what a method returned or threw
\*   failure: why a count of 0 is returned ("none" when the model answered with a count)
NoRet == [kind |-> "none", op |-> "none", text |-> BlankText, score |-> 0,
          feedback |-> "", count |-> 0, error |-> "none", failure |-> "none",
          wait |-> NoWait]
ThrowRet(op, err) == [NoRet EXCEPT !.kind = "throw", !.op = op, !.error = err]
TextRet(op, t) == [NoRet EXCEPT !.kind = "value", !.op = op, !.text = t]
VerifyRet(score, fb) ==
    [NoRet EXCEPT !.kind = "value", !.op = "verify", !.score = score, !.feedback = fb]
CountRet(n) == [NoRet EXCEPT !.kind = "value", !.op = "count", !.count = n]
\* return 0 after 'Could not parse question count' or in the catch block
FailedCount(why) == [CountRet(0) EXCEPT !.failure = why]

\* for (...; i < retries && i < this.clients.length; ...)
LoopCondition(i, k) == i < Retries /\ i < k

\* analyzeImage at its loop test: another slot, or throw lastError || 'All API keys failed'
AnalyzeLoop(g, k) ==
    IF LoopCondition(g.i, k)
    THEN [gw |-> [g EXCEPT !.st = "wait", !.client = "none", !.wait = "none"],
          ret |-> NoRet]
    ELSE [gw |-> IdleGw,
          ret |-> ThrowRet("analyze",
                           IF g.lastError = "none" THEN "allfailed" ELSE g.lastError)]

\* entry of a gateway method called with the image of page img
StartCall(op, img, k) ==
    LET g == [IdleGw EXCEPT !.op = op, !.image = img]
    IN  IF op = "analyze" THEN AnalyzeLoop(g, k)
        ELSE [gw |-> [g EXCEPT !.st = "wait"], ret |-> NoRet]

\* the catch block of the method, entered with err; online is navigator.onLine there
Catch(g, err, online, k) ==
    IF isNetworkError(err, online)
    THEN [gw |-> [g EXCEPT !.st = "catchwait", !.client = "none", !.wait = "none",
                           !.lastError = IF g.op = "analyze" THEN err ELSE @],
          ret |-> NoRet]
    ELSE CASE g.op = "analyze" ->
                \* lastError = error; (sleep if i < retries - 1); i++
                AnalyzeLoop([g EXCEPT !.lastError = err, !.i = g.i + 1], k)
           [] g.op = "verify" ->
                [gw |-> IdleGw, ret |-> VerifyRet(0, "Verification error")]
           [] g.op = "count" ->
                [gw |-> IdleGw, ret |-> FailedCount("error")]
           [] OTHER ->
                [gw |-> IdleGw, ret |-> ThrowRet("fix", err)]

\* what the model can answer
VerifyScores == {0, 90, 95, 99, 115, 119}
\* the verifier's answers: the full JSON with any score, and one answer of each
\* other shape: a bare {"score": n}, a sentence naming the score, no score at all
VerifyAnswers ==
    {[form |-> "full", score |-> n] : n \in VerifyScores}
    \cup {[form |-> "simple", score |-> 95], [form |-> "text", score |-> 90],
          [form |-> "none", score |-> 0]}
CountValues == 0..MaxQuestions

\* the statements printed on page p, in page order
PageStatements(p) == [k \in 1..MaxQuestions |-> Stmt(p, KeyName(k))]
TypeOfQuestion(k) == IF k = 1 THEN "MCQ" ELSE "NAT"
OptionsOfQuestion(k) == IF k = 1 THEN Options(<<"a", "b">>) ELSE NullOptions
PageElems(p, from) ==
    [k \in 1..(MaxQuestions - from + 1) |->
        Elem(TypeOfQuestion(k + from - 1), PageStatements(p)[k + from - 1],
             OptionsOfQuestion(k + from - 1))]

\* texts the model returns for the image of page p: nothing, not JSON, the last
\* question alone in a fenced array, every question in a bare array
ModelTexts(p) ==
    {BlankText, GarbageText,
     Text("fence", "array", PageElems(p, MaxQuestions)),
     Text("bare", "array", PageElems(p, 1))}

\* the verifier's answer text matched by the three regular expressions
verifyParse(form, score) ==
    CASE form = "full" -> VerifyRet(score, "model feedback")
      [] form = "simple" -> VerifyRet(score, "Needs improvement")
      [] form = "text" -> VerifyRet(score, "Needs improvement")
      [] OTHER -> VerifyRet(0, "Verification failed")

\* (mutation of countParse: a number is returned although the answer did not match)
countParseAnyNumber(matched, n) ==
    IF matched THEN CountRet(n) ELSE [CountRet(n) EXCEPT !.failure = "unparsable"]

\* the counter's answer text matched by /"count"\s*:\s*(\d+)/
countParse(matched, n) == IF matched THEN CountRet(n) ELSE FailedCount("unparsable")

(* history: getNextClient calls and requests *)
Sat(n) == IF n < MaxCalls THEN n + 1 ELSE MaxCalls
InitHist ==
    [nCalls |-> 0,            \* successful getNextClient calls (stops at MaxCalls)
     nReqs |-> 0,             \* requests issued (stops at MaxCalls)
     lastGet |-> "none",      \* the last getNextClient call: "none", "throw", or the key
     lastPos |-> -1,          \* the cursor position it read
     callStart |-> 0,         \* nReqs when the gateway method running on its own was called
     prevReq |-> -1,          \* cursor position used by the request before the last
     curReq |-> -1,           \* cursor position used by the last request
     allZeroFirst |-> {},     \* pages whose first-pass attempts all parsed to nothing
     retryEmpty |-> {},       \* pages whose retry pass returned no question
     nSaves |-> 0,            \* calls of saveQuestionToSupabase
     keepScores |-> FALSE,    \* whether pg.bestScore is kept
     errRun |-> -1]           \* failed requests in a row of the first client, up to
                              \* DisableAfter (-1: not counted)
HistGet(h, r) ==
    IF r.threw THEN [h EXCEPT !.lastGet = "throw", !.lastPos = r.pos]
    ELSE [h EXCEPT !.nCalls = Sat(h.nCalls), !.lastGet = r.client, !.lastPos = r.pos]
HistReq(h, pos) ==
    [h EXCEPT !.nReqs = Sat(h.nReqs), !.prevReq = h.curReq, !.curReq = pos]

\* history: a request made with the client failed / was answered
HistFailed(h, client, cl) ==
    IF h.errRun >= 0 /\ cl # <<>> /\ client = cl[1] /\ h.errRun < DisableAfter
    THEN [h EXCEPT !.errRun = @ + 1] ELSE h
HistAnswered(h, client, cl) ==
    IF h.errRun >= 0 /\ cl # <<>> /\ client = cl[1] THEN [h EXCEPT !.errRun = 0] ELSE h

(* gateway steps *)

\* await waitForNetwork() in the try block times out, or it returns and the method
\* goes on to const client = this.getNextClient(); model.generateContent([...])
SendRequest ==
    /\ gw.st = "wait"
    /\ \E timedOut \in BOOLEAN, online \in BOOLEAN :
          LET r == getNextClient(clients, currentIndex)
          IN  IF timedOut \/ r.threw
              THEN LET c == Catch(gw, IF timedOut THEN "timeout" ELSE "nokeys", online,
                                  Len(clients))
                   IN  /\ gw' = c.gw /\ ret' = c.ret
                       /\ hist' = IF timedOut THEN hist ELSE HistGet(hist, r)
                       /\ UNCHANGED currentIndex
              ELSE /\ currentIndex' = r.index
                   /\ gw' = [gw EXCEPT !.st = "flight", !.client = r.client,
                                       !.wait = "ok"]
                   /\ ret' = ret
                   /\ hist' = HistReq(HistGet(hist, r), r.pos)
    /\ UNCHANGED <<questionTypes, autoSave, pdfFiles, alert, apiKeys, clients, pc, docVars, pg>>

\* the request fails
ReceiveError ==
    /\ gw.st = "flight"
    /\ \E err \in RequestErrors, online \in BOOLEAN :
          LET c == Catch(gw, err, online, Len(clients))
          IN  gw' = c.gw /\ ret' = c.ret
    /\ hist' = HistFailed(hist, gw.client, clients)
    /\ UNCHANGED <<questionTypes, autoSave, pdfFiles, alert, rotVars, pc, docVars, pg>>

\* analyzeImage / fixExtraction: response.text()
ReceiveText ==
    /\ gw.st = "flight"
    /\ gw.op \in {"analyze", "fix"}
    /\ \E t \in ModelTexts(gw.image), online \in BOOLEAN :
          IF IsEmptyText(t)
          THEN LET c == Catch(gw, "empty", online, Len(clients))
               IN  /\ gw' = c.gw /\ ret' = c.ret
                   /\ hist' = HistFailed(hist, gw.client, clients)
          ELSE /\ gw' = IdleGw /\ ret' = TextRet(gw.op, t)
               /\ hist' = HistAnswered(hist, gw.client, clients)
    /\ UNCHANGED <<questionTypes, autoSave, pdfFiles, alert, rotVars, pc, docVars, pg>>

\* verifyExtraction: the answer is matched for a score
ReceiveVerdict ==
    /\ gw.st = "flight"
    /\ gw.op = "verify"
    /\ \E a \in VerifyAnswers :
          gw' = IdleGw /\ ret' = verifyParse(a.form, a.score)
    /\ hist' = HistAnswered(hist, gw.client, clients)
    /\ UNCHANGED <<questionTypes, autoSave, pdfFiles, alert, rotVars, pc, docVars, pg>>

\* countQuestionsInImage: the answer is matched for a count
ReceiveCount ==
    /\ gw.st = "flight"
    /\ gw.op = "count"
    /\ \E matched \in BOOLEAN, n \in CountValues :
          gw' = IdleGw /\ ret' = countParse(matched, n)
    /\ hist' = HistAnswered(hist, gw.client, clients)
    /\ UNCHANGED <<questionTypes, autoSave, pdfFiles, alert, rotVars, pc, docVars, pg>>

\* await waitForNetwork() in the catch block: analyzeImage repeats the slot (i--;
\* continue), the others call themselves again; a timeout here leaves the method
CatchWait ==
    /\ gw.st = "catchwait"
    /\ \E timedOut \in BOOLEAN :
          IF timedOut
          THEN gw' = IdleGw /\ ret' = ThrowRet(gw.op, "timeout")
          ELSE IF gw.op = "analyze"
               THEN LET c == AnalyzeLoop(gw, Len(clients))
                    IN  gw' = c.gw /\ ret' = c.ret
               ELSE LET c == StartCall(gw.op, gw.image, Len(clients))
                    IN  gw' = c.gw /\ ret' = c.ret
    /\ UNCHANGED <<questionTypes, autoSave, pdfFiles, alert, rotVars, pc, docVars, pg, hist>>

(* --------------------------- initial values ---------------------------- *)

\* feedback texts: a base message and the critical-mismatch clauses appended to it,
\* each clause naming the expected and the extracted count
Feedback(base) == [base |-> base, clauses |-> <<>>]
NoFeedback == Feedback("")

\* the value returned by processPageWithExtraction, and k, the number of its questions
\* processPdfs has walked so far
NoResult == [returned |-> FALSE, pageQuestions |-> <<>>, pageProcessed |-> FALSE,
             shouldRetry |-> FALSE, k |-> 0, save |-> "none"]

\* the locals of processPageWithExtraction before its first statement
InitPg ==
    [isRetry |-> FALSE, pageNum |-> 0, imageData |-> 0,
     expectedQuestionCount |-> 0,
     pageQuestions |-> <<>>, verificationScore |-> 0,
     extractionResponse |-> BlankText, feedback |-> NoFeedback,
     maxAttempts |-> 0, pageProcessed |-> FALSE, attempt |-> 0,
     \* the previousExtraction argument of the fixExtraction call of the attempt
     prior |-> BlankText,
     \* (kept with the scores) an attempt of the pass had a mismatch and a raw score
     \* within the scale
     sawMismatch |-> FALSE,
     \* locals of one loop iteration
     questions |-> <<>>, verification |-> [score |-> 0, feedback |-> ""],
     questionMismatch |-> FALSE,
     \* history of the pass: of the attempts so far, whether each parsed to nothing,
     \* whether each parsed to at least one question, whether one did; how it ended
     allZero |-> TRUE, allNonEmpty |-> TRUE, anyNonEmpty |-> FALSE,
     outcome |-> "none",
     \* the highest effective score of the verified attempts so far (-1: none), kept
     \* when the history says so
     bestScore |-> -1]

\* the list holds pdfFile alone
OneFile == [done |-> <<>>, rest |-> <<>>]
\* no alert has been shown; extractedQuestions.length as processPdfs sees it is captured
NoAlert(captured) == [captured |-> captured, shown |-> FALSE, skipped |-> <<>>, total |-> 0]

InitApp ==
    /\ autoSave = TRUE
    /\ alert = NoAlert(0)
    /\ pdfStatus = "pending"
    /\ numPages = 0
    /\ pageI = 0
    /\ retryI = 0
    /\ retryPages = <<>>
    /\ skippedPages = <<>>
    /\ extractedQuestions = <<>>
    /\ result = NoResult
    /\ pg = InitPg

(* ------------------- processPageWithExtraction ------------------------ *)

\* the fixed feedback messages
RescanFeedback == Feedback("No questions extracted. Scan image again")
CriticalRetryFeedback == Feedback("CRITICAL RETRY: This page MUST have questions")
GenericRetryFeedback == Feedback("Previous attempt failed. Retrying with next API key")

\* (mutation of MaxAttemptsOf: the retry pass has the budget of the first pass)
MaxAttemptsOfFirst(isRetry) == FirstPassAttempts

\* const maxAttempts = isRetry ? 8 : 6
MaxAttemptsOf(isRetry) == IF isRetry THEN RetryPassAttempts ELSE FirstPassAttempts

\* (mutation of QuestionMismatch: any difference from the expected count)
QuestionMismatchAnyDifference(expected, extracted) == expected > 0 /\ extracted # expected

\* expectedQuestionCount > 0 && questions.length < expectedQuestionCount
QuestionMismatch(expected, extracted) == expected > 0 /\ extracted < expected

\* (mutation of PenalizedScore: the penalty without its floor)
PenalizedScoreNoFloor(score, mismatch) ==
    IF mismatch THEN score - MismatchPenalty ELSE score

\* verificationScore after the mismatch penalty
PenalizedScore(score, mismatch) ==
    IF mismatch THEN Max(0, score - MismatchPenalty) ELSE score

\* (mutation of PenalizedFeedback: the clause is appended to every verify feedback)
PenalizedFeedbackAlways(fb, mismatch, expected, extracted) ==
    [fb EXCEPT !.clauses = Append(fb.clauses, <<expected, extracted>>)]

\* feedback after the mismatch clause
PenalizedFeedback(fb, mismatch, expected, extracted) ==
    IF mismatch
    THEN [fb EXCEPT !.clauses = Append(fb.clauses, <<expected, extracted>>)]
    ELSE fb

\* (mutation of Decision: the good-enough branch does not look at the mismatch)
DecisionIgnoringMismatch(score, mismatch, attempt, maxAttempts) ==
    IF score >= AcceptScore THEN "accepted"
    ELSE IF attempt < maxAttempts THEN "retry"
    ELSE "exhausted"

\* (mutation of Decision: the good-enough branch starts five points lower)
DecisionLenient(score, mismatch, attempt, maxAttempts) ==
    IF score >= PerfectScore THEN "approved"
    ELSE IF score >= AcceptScore - 5 /\ ~mismatch THEN "accepted"
    ELSE IF attempt < maxAttempts THEN "retry"
    ELSE "exhausted"

\* the if / else-if chain that ends an attempt
Decision(score, mismatch, attempt, maxAttempts) ==
    IF score >= PerfectScore THEN "approved"
    ELSE IF score >= AcceptScore /\ ~mismatch THEN "accepted"
    ELSE IF attempt < maxAttempts THEN "retry"
    ELSE "exhausted"

\* (mutation of EmptyResult: the empty page is never flagged for the retry pass)
EmptyResultNoRetry(isRetry) ==
    [NoResult EXCEPT !.returned = TRUE, !.pageQuestions = <<>>,
                     !.pageProcessed = FALSE, !.shouldRetry = FALSE]

\* (mutation of EmptyResult: the empty page is flagged for a retry on either pass)
EmptyResultAlwaysRetry(isRetry) ==
    [NoResult EXCEPT !.returned = TRUE, !.pageQuestions = <<>>,
                     !.pageProcessed = FALSE, !.shouldRetry = TRUE]

\* the value returned on the last attempt when nothing was parsed or the attempt threw
EmptyResult(isRetry) ==
    [NoResult EXCEPT !.returned = TRUE, !.pageQuestions = <<>>,
                     !.pageProcessed = FALSE, !.shouldRetry = ~isRetry]

\* return { pageQuestions, pageProcessed, shouldRetry: false }
FinalResult(p) ==
    [NoResult EXCEPT !.returned = TRUE, !.pageQuestions = p.pageQuestions,
                     !.pageProcessed = p.pageProcessed, !.shouldRetry = FALSE]

\* processPageWithExtraction(imageData, pageNum, isRetry) up to its first await:
\* the call of countQuestionsInImage
EnterPage(img, isRetry) ==
    /\ pg' = [InitPg EXCEPT !.isRetry = isRetry, !.pageNum = img, !.imageData = img,
                            !.outcome = "running"]
    /\ LET c == StartCall("count", img, Len(clients))
       IN  gw' = c.gw /\ ret' = c.ret
    /\ result' = NoResult
    /\ pc' = "count"

\* the page pass returns res to processPdfs, which pushes the page on retryPages when
\* (mutation of ReturnPage: the first pass defers every page)
ReturnPageDefersAll(res) ==
    /\ result' = res
    /\ retryPages' = IF retryI = 0 THEN Append(retryPages, pg.pageNum - 1) ELSE retryPages
    /\ hist' = [hist EXCEPT
                  !.allZeroFirst = IF ~pg.isRetry /\ pg'.allZero
                                   THEN @ \cup {pg.pageNum} ELSE @,
                  !.retryEmpty = IF pg.isRetry /\ res.pageQuestions = <<>>
                                 THEN @ \cup {pg.pageNum} ELSE @]
    /\ pc' = "append"

\* the first pass asks for it and then walks the returned questions
ReturnPage(res) ==
    /\ result' = res
    /\ retryPages' = IF retryI = 0 /\ res.shouldRetry
                     THEN Append(retryPages, pg.pageNum - 1)
                     ELSE retryPages
    /\ hist' = [hist EXCEPT
                  !.allZeroFirst = IF ~pg.isRetry /\ pg'.allZero
                                   THEN @ \cup {pg.pageNum} ELSE @,
                  !.retryEmpty = IF pg.isRetry /\ res.pageQuestions = <<>>
                                 THEN @ \cup {pg.pageNum} ELSE @]
    /\ pc' = "append"

\* (mutation of CallOfAttempt: every attempt extracts afresh)
CallOfAttemptExtract(attempt) == "analyze"

\* if (attempt === 1) analyzeImage(...) else fixExtraction(...)
CallOfAttempt(attempt) == IF attempt = 1 THEN "analyze" ELSE "fix"

\* let expectedQuestionCount = 0; try { ... = await countQuestionsInImage } catch { }
ExpectedCount(r) == IF r.kind = "value" THEN r.count ELSE 0

\* expectedQuestionCount = await gemini.countQuestionsInImage(imageData), or its catch;
\* then the locals, and attempt 1 calls analyzeImage
CountReturn ==
    /\ pc = "count" /\ ret.kind # "none"
    /\ pg' = [pg EXCEPT
                !.expectedQuestionCount = ExpectedCount(ret),
                !.maxAttempts = MaxAttemptsOf(pg.isRetry),
                !.attempt = 1]
    /\ LET c == StartCall(CallOfAttempt(1), pg.imageData, Len(clients))
       IN  gw' = c.gw /\ ret' = c.ret
    /\ pc' = "extract"
    /\ UNCHANGED <<questionTypes, autoSave, pdfFiles, alert, rotVars, docVars, hist>>

\* history: the attempt threw (in the extract/repair call, pc = "extract", or in the
\* verify call), parsed to nothing, parsed to questions
Threw(p) ==
    IF pc = "extract" THEN [p EXCEPT !.allZero = FALSE, !.allNonEmpty = FALSE] ELSE p
ParsedZero(p) == [p EXCEPT !.allNonEmpty = FALSE]
ParsedSome(p) == [p EXCEPT !.allZero = FALSE, !.anyNonEmpty = TRUE]

\* (mutation of CatchAttempt: the exception of any attempt ends the pass)
CatchAttemptEndsPass ==
    /\ pg' = [Threw(pg) EXCEPT !.outcome = "failed"]
    /\ ReturnPage(EmptyResult(pg.isRetry))

\* the catch block of the attempt loop
CatchAttempt ==
    IF pg.attempt = pg.maxAttempts
    THEN /\ pg' = [Threw(pg) EXCEPT !.outcome = "failed"]
         /\ ReturnPage(EmptyResult(pg.isRetry))
    ELSE /\ pg' = [Threw(pg) EXCEPT !.feedback = GenericRetryFeedback]
         /\ pc' = "sleep"
         /\ UNCHANGED <<result, retryPages, hist>>

\* analyzeImage / fixExtraction returned or threw: parse, and either go on to verify
\* or handle the empty parse
ExtractReturn ==
    /\ pc = "extract" /\ ret.kind # "none"
    /\ IF ret.kind = "throw"
       THEN CatchAttempt /\ gw' = gw
       ELSE LET questions == parseGeminiResponse(ret.text, PdfYear)
            IN  IF Len(questions) = 0
                THEN IF pg.attempt < pg.maxAttempts
                     THEN /\ pg' = [ParsedZero(pg) EXCEPT
                                      !.extractionResponse = ret.text,
                                      !.questions = questions,
                                      !.feedback = IF pg.isRetry THEN CriticalRetryFeedback
                                                   ELSE RescanFeedback]
                          /\ pc' = "sleep"
                          /\ gw' = gw
                          /\ UNCHANGED <<result, retryPages, hist>>
                     ELSE /\ pg' = [ParsedZero(pg) EXCEPT
                                      !.extractionResponse = ret.text,
                                      !.questions = questions,
                                      !.outcome = "empty"]
                          /\ gw' = gw
                          /\ ReturnPage(EmptyResult(pg.isRetry))
                ELSE /\ pg' = [ParsedSome(pg) EXCEPT
                                 !.extractionResponse = ret.text,
                                 !.questions = questions]
                     /\ LET c == StartCall("verify", pg.imageData, Len(clients))
                        IN  gw' = c.gw
                     /\ pc' = "verify"
                     /\ UNCHANGED <<result, retryPages, hist>>
    /\ ret' = NoRet
    /\ UNCHANGED <<questionTypes, autoSave, pdfFiles, alert, rotVars, pdfStatus, numPages, pageI, retryI, skippedPages,
                   extractedQuestions>>

\* verifyExtraction returned or threw: the penalty and the decision
VerifyReturn ==
    /\ pc = "verify" /\ ret.kind # "none"
    /\ IF ret.kind = "throw"
       THEN CatchAttempt
       ELSE LET mismatch == QuestionMismatch(pg.expectedQuestionCount, Len(pg.questions))
                score == PenalizedScore(ret.score, mismatch)
                fb == PenalizedFeedback(Feedback(ret.feedback), mismatch,
                                        pg.expectedQuestionCount, Len(pg.questions))
                d == Decision(score, mismatch, pg.attempt, pg.maxAttempts)
                p == [pg EXCEPT
                        !.verification = [score |-> ret.score, feedback |-> ret.feedback],
                        !.verificationScore = score,
                        !.bestScore = IF hist.keepScores THEN Max(@, score) ELSE @,
                        !.sawMismatch = IF hist.keepScores
                                        THEN @ \/ (mismatch /\ ret.score <= FullScore)
                                        ELSE @,
                        !.feedback = fb,
                        !.questionMismatch = mismatch]
            IN  IF d = "retry"
                THEN /\ pg' = p
                     /\ pc' = "sleep"
                     /\ UNCHANGED <<result, retryPages, hist>>
                ELSE /\ pg' = [p EXCEPT !.pageQuestions = p.questions,
                                        !.pageProcessed = TRUE,
                                        !.outcome = IF d = "exhausted" THEN "exhausted"
                                                    ELSE "accepted"]
                     /\ ReturnPage(FinalResult(pg'))
    /\ ret' = NoRet
    /\ gw' = gw
    /\ UNCHANGED <<questionTypes, autoSave, pdfFiles, alert, rotVars, pdfStatus, numPages, pageI, retryI, skippedPages,
                   extractedQuestions>>

\* the sleep before the next attempt is over: attempt++, and the attempt calls
\* fixExtraction(imageData, extractionResponse, feedback). The locals of the finished
\* iteration are dead; so is verificationScore, assigned in each iteration before it
\* is read
NextAttempt ==
    /\ pc = "sleep"
    /\ pg' = [pg EXCEPT !.attempt = pg.attempt + 1,
                        !.prior = pg.extractionResponse,
                        !.questions = <<>>,
                        !.verificationScore = 0,
                        !.verification = InitPg.verification,
                        !.questionMismatch = FALSE]
    /\ LET c == StartCall(CallOfAttempt(pg.attempt + 1), pg.imageData, Len(clients))
       IN  gw' = c.gw /\ ret' = c.ret
    /\ pc' = "extract"
    /\ UNCHANGED <<questionTypes, autoSave, pdfFiles, alert, rotVars, docVars, hist>>

(* ------------------------------ processPdfs ---------------------------- *)

\* the form holds MaxKeyFields key fields, all of them left blank or all filled in
FormKeys(k) == [n \in 1..MaxKeyFields |-> IF n <= k THEN KeyName(n) ELSE ""]

Init ==
    /\ \E k \in {0, MaxKeyFields} : apiKeys = FormKeys(k)
    /\ questionTypes = QuestionTypes
    /\ pdfFiles = OneFile
    /\ clients = <<>>
    /\ currentIndex = 0
    /\ gw = IdleGw
    /\ ret = NoRet
    /\ pc = "idle"
    /\ hist = InitHist
    /\ InitApp

\* one file of the list: its status, its totalPages and the alert shown for it
File(status, pages, al) == [status |-> status, totalPages |-> pages, alert |-> al]

\* for (const pdfFile of pdfFiles) { if (pdfFile.status === 'completed') continue ... }:
\* the first file of rest that is not completed, the files passed over put on done
RECURSIVE Advance(_, _)
Advance(done, rest) ==
    IF rest = <<>> THEN [found |-> FALSE, done |-> done, rest |-> rest]
    ELSE IF Head(rest).status = "completed"
    THEN Advance(Append(done, Head(rest)), Tail(rest))
    ELSE [found |-> TRUE, done |-> done, rest |-> Tail(rest)]

\* the locals of one iteration of the loop over the files
FileLocals(n, i, r, retry, skipped) ==
    [numPages |-> n, pageI |-> i, retryI |-> r, retryPages |-> retry,
     skippedPages |-> skipped]
NoLocals == FileLocals(0, 0, 0, <<>>, <<>>)
SetLocals(loc) ==
    /\ numPages' = loc.numPages
    /\ pageI' = loc.pageI
    /\ retryI' = loc.retryI
    /\ retryPages' = loc.retryPages
    /\ skippedPages' = loc.skippedPages

\* processPdfs up to await convertPdfToImages(pdfFile.file): the key check, the
\* rotator, and the first file that is not completed set to 'processing'
StartProcessing ==
    /\ pc = "idle"
    /\ LET validKeys == FilterKeys(apiKeys)
           a == Advance(<<>>, <<File(pdfStatus, numPages, alert)>> \o pdfFiles.rest)
       IN  IF Len(validKeys) = 0
           THEN /\ pc' = "returned"                   \* alert(...); return
                /\ UNCHANGED <<clients, currentIndex, pdfStatus, extractedQuestions,
                               pdfFiles, alert>>
           ELSE /\ extractedQuestions' = <<>>
                /\ clients' = FilterKeys(validKeys)   \* new GeminiRoundRobin(validKeys)
                /\ currentIndex' = 0
                /\ alert' = NoAlert(Len(extractedQuestions))
                /\ IF a.found
                   THEN /\ pdfStatus' = "processing"
                        /\ pdfFiles' = [done |-> a.done, rest |-> a.rest]
                        /\ pc' = "convert"
                   ELSE /\ pc' = "returned"           \* every file is completed
                        /\ UNCHANGED <<pdfStatus, pdfFiles>>
    /\ UNCHANGED <<questionTypes, autoSave, apiKeys, gwVars, numPages, pageI, retryI, retryPages,
                   skippedPages, result, pg, hist>>

\* if (skippedPages.length > 0) alert(... skippedPages ... extractedQuestions.length):
\* extractedQuestions is the list processPdfs was called with
Summary(al, status, skipped) ==
    IF status = "completed" /\ skipped # <<>>
    THEN [al EXCEPT !.shown = TRUE, !.skipped = skipped, !.total = al.captured]
    ELSE al

\* (mutation of EndFile: processPdfs returns when a file ends, whatever follows it)
EndFileStops(status, loc) ==
    /\ pdfFiles' = pdfFiles
    /\ pdfStatus' = status
    /\ alert' = Summary(alert, status, loc.skippedPages)
    /\ SetLocals(loc)
    /\ pc' = "returned"

\* pdfFile ends with the status given (after both loops, or in the catch block), and
\* the loop over the files goes on: the next file that is not completed is set to
\* 'processing', or processPdfs returns
EndFile(status, loc) ==
    LET al == Summary(alert, status, loc.skippedPages)
        a == Advance(Append(pdfFiles.done, File(status, loc.numPages, al)), pdfFiles.rest)
    IN  IF a.found
        THEN /\ pdfFiles' = [done |-> a.done, rest |-> a.rest]
             /\ pdfStatus' = "processing"
             /\ alert' = NoAlert(alert.captured)
             /\ SetLocals(NoLocals)
             /\ pc' = "convert"
        ELSE /\ pdfFiles' = pdfFiles
             /\ pdfStatus' = status
             /\ alert' = al
             /\ SetLocals(loc)
             /\ pc' = "returned"

\* convertPdfToImages throws: the file is marked 'error'
ConvertFails ==
    /\ pc = "convert"
    /\ EndFile("error", FileLocals(numPages, pageI, retryI, retryPages, skippedPages))
    /\ UNCHANGED <<questionTypes, autoSave, rotVars, gwVars, extractedQuestions, result, pg, hist>>

\* status 'completed' after both loops
FinishDocument(loc) == EndFile("completed", loc)

\* the pages the file at hand can have: a list of one file has up to MaxPages pages,
\* the files of a longer list have BatchPages pages together
PagesOf(files) ==
    LET n == Len(files)
        Sum[k \in 0..n] == IF k = 0 THEN 0 ELSE Sum[k - 1] + files[k].totalPages
    IN  Sum[n]
PagesLeft ==
    IF pdfFiles = OneFile THEN MaxPages ELSE BatchPages - PagesOf(pdfFiles.done)

\* convertPdfToImages returns the page images: the first page, if any, is entered
ConvertReturns ==
    /\ pc = "convert"
    /\ \E n \in 0..PagesLeft :
          IF n = 0
          THEN /\ FinishDocument(FileLocals(0, 0, retryI, <<>>, <<>>))
               /\ UNCHANGED <<gwVars, result, pg>>
          ELSE /\ SetLocals(FileLocals(n, 0, retryI, <<>>, <<>>))
               /\ EnterPage(1, FALSE)
               /\ UNCHANGED <<pdfStatus, pdfFiles, alert>>
    /\ UNCHANGED <<questionTypes, autoSave, rotVars, extractedQuestions, hist>>

\* (mutation of SaveAttempts: the question is saved whatever the box says)
SaveAttemptsAlways(auto) == 1

\* if (autoSave) { try { await saveQuestionToSupabase(question) } catch { log } }
SaveAttempts(auto) == IF auto THEN 1 ELSE 0

\* for (const question of pageQuestions): the question is appended to the output and,
\* with autoSave, saved; a failed save is logged and nothing else. The locals of the
\* page pass that returned are gone
AppendQuestion ==
    /\ pc = "append"
    /\ result.k < Len(result.pageQuestions)
    /\ extractedQuestions' = Append(extractedQuestions, result.pageQuestions[result.k + 1])
    /\ \E saveFails \in BOOLEAN :
          result' = [result EXCEPT
                       !.k = result.k + 1,
                       !.save = IF SaveAttempts(autoSave) = 0 THEN "none"
                                ELSE IF saveFails THEN "failed" ELSE "saved"]
    /\ hist' = [hist EXCEPT !.nSaves = @ + SaveAttempts(autoSave)]
    /\ pg' = InitPg
    /\ UNCHANGED <<questionTypes, autoSave, pdfFiles, alert, rotVars, gwVars, pc, pdfStatus,
                   numPages, pageI, retryI, retryPages, skippedPages>>

\* the retry loop at its next element, or the end of the document
RetryLoop(next, loc) ==
    IF next <= Len(retryPages)
    THEN /\ SetLocals(loc)
         /\ EnterPage(retryPages[next] + 1, TRUE)
         /\ UNCHANGED <<pdfStatus, pdfFiles, alert>>
    ELSE /\ FinishDocument(loc)
         /\ pg' = InitPg
         /\ result' = IF pc' = "convert" THEN NoResult ELSE result
         /\ UNCHANGED gwVars

\* (mutation of MorePages: the first loop ends after its first page)
MorePagesNever(i, n) == FALSE

\* for (let i = 0; i < images.length; i++)
MorePages(i, n) == i < n

\* first loop, after the questions of page i: the next page, or the retry loop
NextPage ==
    /\ pc = "append" /\ retryI = 0
    /\ result.k = Len(result.pageQuestions)
    /\ IF MorePages(pageI + 1, numPages)
       THEN /\ SetLocals(FileLocals(numPages, pageI + 1, 0, retryPages, skippedPages))
            /\ EnterPage(pageI + 2, FALSE)
            /\ UNCHANGED <<pdfStatus, pdfFiles, alert>>
       ELSE RetryLoop(1, FileLocals(numPages, pageI + 1, 1, retryPages, skippedPages))
    /\ UNCHANGED <<questionTypes, autoSave, rotVars, extractedQuestions, hist>>

\* (mutation of SkipIfEmpty: no page is ever recorded as skipped)
SkipNever(skipped, page, questions) == skipped

\* if (pageQuestions.length === 0) skippedPages.push(retryPage.index + 1)
SkipIfEmpty(skipped, page, questions) ==
    IF Len(questions) = 0 THEN Append(skipped, page) ELSE skipped

\* retry loop, after the questions of a retried page: the page is pushed on
\* skippedPages when it has none; then the next retry page, or the end
NextRetryPage ==
    /\ pc = "append" /\ retryI > 0
    /\ result.k = Len(result.pageQuestions)
    /\ LET skipped == SkipIfEmpty(skippedPages, retryPages[retryI] + 1,
                                  result.pageQuestions)
       IN  RetryLoop(retryI + 1,
                     FileLocals(numPages, pageI, retryI + 1, retryPages, skipped))
    /\ UNCHANGED <<questionTypes, autoSave, rotVars, extractedQuestions, hist>>

Next ==
    \/ StartProcessing
    \/ ConvertFails
    \/ ConvertReturns
    \/ CountReturn
    \/ ExtractReturn
    \/ VerifyReturn
    \/ NextAttempt
    \/ AppendQuestion
    \/ NextPage
    \/ NextRetryPage
    \/ SendRequest
    \/ ReceiveError
    \/ ReceiveText
    \/ ReceiveVerdict
    \/ ReceiveCount
    \/ CatchWait

Spec == Init /\ [][Next]_vars

(* ------------------- a list of several files (SpecBatch) ---------------- *)
(* processPdfs on a list of MaxFiles files, some of them completed by an        *)
(* earlier run, after the auto-save box was set either way.                      *)

FileStatuses == {"pending", "completed"}

InitBatch ==
    /\ \E k \in {0, MaxKeyFields} : apiKeys = FormKeys(k)
    /\ questionTypes = QuestionTypes
    /\ autoSave = TRUE
    /\ alert = NoAlert(0)
    /\ pdfStatus \in FileStatuses
    /\ \E rest \in [1..(MaxFiles - 1) -> FileStatuses] :
          pdfFiles = [done |-> <<>>,
                      rest |-> [k \in 1..(MaxFiles - 1) |-> File(rest[k], 0, NoAlert(0))]]
    /\ clients = <<>>
    /\ currentIndex = 0
    /\ gw = IdleGw
    /\ ret = NoRet
    /\ pc = "idle"
    /\ hist = InitHist
    /\ numPages = 0
    /\ pageI = 0
    /\ retryI = 0
    /\ retryPages = <<>>
    /\ skippedPages = <<>>
    /\ extractedQuestions = <<>>
    /\ result = NoResult
    /\ pg = InitPg

\* setAutoSave(e.target.checked), before processPdfs is called
SetAutoSave ==
    /\ pc = "idle"
    /\ autoSave' = ~autoSave
    /\ UNCHANGED <<questionTypes, apiKeys, pdfFiles, alert, clients, currentIndex, gwVars, pc,
                   docVars, pg, hist>>

NextBatch ==
    \/ SetAutoSave
    \/ StartProcessing
    \/ ConvertFails
    \/ ConvertReturns
    \/ CountReturn
    \/ ExtractReturn
    \/ VerifyReturn
    \/ NextAttempt
    \/ AppendQuestion
    \/ NextPage
    \/ NextRetryPage
    \/ SendRequest
    \/ ReceiveError
    \/ ReceiveText
    \/ ReceiveVerdict
    \/ ReceiveCount
    \/ CatchWait

SpecBatch == InitBatch /\ [][NextBatch]_vars

(* ------------- processPdfs with the scores of a pass kept (SpecScores) --------- *)
(* One key and a list whose last files are completed.                             *)

InitScores ==
    /\ apiKeys = FormKeys(1)
    /\ questionTypes = QuestionTypes
    /\ pdfFiles = [done |-> <<>>,
                   rest |-> [k \in 1..(MaxFiles - 1) |-> File("completed", 0, NoAlert(0))]]
    /\ clients = <<>>
    /\ currentIndex = 0
    /\ gw = IdleGw
    /\ ret = NoRet
    /\ pc = "idle"
    /\ hist = [InitHist EXCEPT !.keepScores = TRUE]
    /\ InitApp

SpecScores == InitScores /\ [][Next]_vars

(* ------------- processPdfs with every step eventually taken (SpecPass) --------- *)
(* One key and a list whose last files are completed. The event loop runs every    *)
(* continuation whose promise has settled and every timer callback that is due,    *)
(* and every request gets its answer or its error: a step that stays possible is   *)
(* taken.                                                                           *)

InitPass ==
    /\ apiKeys = FormKeys(1)
    /\ questionTypes = QuestionTypes
    /\ pdfFiles = [done |-> <<>>,
                   rest |-> [k \in 1..(MaxFiles - 1) |-> File("completed", 0, NoAlert(0))]]
    /\ clients = <<>>
    /\ currentIndex = 0
    /\ gw = IdleGw
    /\ ret = NoRet
    /\ pc = "idle"
    /\ hist = InitHist
    /\ InitApp

SpecPass == InitPass /\ [][Next]_vars /\ WF_vars(Next)


(* ----------------- GeminiRoundRobin on its own (SpecRotator) ----------- *)

RECURSIVE SeqsUpTo(_, _)
\* the sequences over S of length at most n
SeqsUpTo(S, n) ==
    IF n = 0 THEN {<<>>}
    ELSE LET shorter == SeqsUpTo(S, n - 1)
         IN  shorter \cup {Append(q, x) : q \in {r \in shorter : Len(r) = n - 1}, x \in S}

UnitKeys == BlankKeys \cup {"k1", "k2"}

InitRotator ==
    /\ apiKeys \in SeqsUpTo(UnitKeys, MaxKeys)
    /\ questionTypes = QuestionTypes
    /\ pdfFiles = OneFile
    /\ clients = <<>>
    /\ currentIndex = 0
    /\ gw = IdleGw
    /\ ret = NoRet
    /\ pc = "new"
    /\ hist = InitHist
    /\ InitApp

\* new GeminiRoundRobin(apiKeys)
Construct ==
    /\ pc = "new"
    /\ clients' = FilterKeys(apiKeys)
    /\ currentIndex' = 0
    /\ pc' = "unit"
    /\ UNCHANGED <<questionTypes, autoSave, pdfFiles, alert, apiKeys, gwVars, docVars, pg, hist>>

\* a caller invokes getNextClient()
UnitGetNextClient ==
    /\ pc = "unit" /\ gw.st = "idle" /\ ret.kind = "none"
    /\ LET r == getNextClient(clients, currentIndex)
       IN  /\ currentIndex' = r.index
           /\ hist' = HistGet(hist, r)
           /\ ret' = IF r.threw THEN ThrowRet("getNextClient", "nokeys") ELSE ret
    /\ UNCHANGED <<questionTypes, autoSave, pdfFiles, alert, apiKeys, clients, gw, pc, docVars, pg>>

\* a caller invokes analyzeImage, verifyExtraction, fixExtraction or countQuestionsInImage
UnitCall ==
    /\ pc = "unit" /\ gw.st = "idle" /\ ret.kind = "none"
    /\ \E op \in Ops :
          LET c == StartCall(op, 1, Len(clients))
          IN  gw' = c.gw /\ ret' = c.ret
    /\ hist' = [hist EXCEPT !.callStart = hist.nReqs]
    /\ UNCHANGED <<questionTypes, autoSave, pdfFiles, alert, rotVars, pc, docVars, pg>>

\* a caller invokes the module function waitForNetwork(maxWaitSeconds), which needs no
\* rotator, while navigator.onLine changes as online says
UnitWaitForNetwork ==
    /\ pc = "new" /\ ret.kind = "none"
    /\ \E online \in [0..MaxWaitSeconds -> BOOLEAN], maxWaitSeconds \in 0..MaxWaitSeconds :
          LET w == waitForNetwork(online, maxWaitSeconds)
              r == IF w.threw THEN ThrowRet("waitForNetwork", "timeout")
                   ELSE [NoRet EXCEPT !.kind = "value", !.op = "waitForNetwork"]
          IN  ret' = [r EXCEPT !.wait = [online |-> online,
                                         maxWaitSeconds |-> maxWaitSeconds,
                                         elapsed |-> w.elapsed, reads |-> w.reads]]
    /\ UNCHANGED <<questionTypes, autoSave, pdfFiles, alert, rotVars, gw, pc, docVars, pg, hist>>

\* the caller takes the result
UnitReturn ==
    /\ pc \in {"new", "unit"} /\ ret.kind # "none"
    /\ ret' = NoRet
    /\ UNCHANGED <<questionTypes, autoSave, pdfFiles, alert, rotVars, gw, pc, docVars, pg, hist>>

NextRotator ==
    \/ Construct
    \/ UnitGetNextClient
    \/ UnitCall
    \/ UnitWaitForNetwork
    \/ UnitReturn
    \/ SendRequest
    \/ ReceiveError
    \/ ReceiveText
    \/ ReceiveVerdict
    \/ ReceiveCount
    \/ CatchWait

SpecRotator == InitRotator /\ [][NextRotator]_vars

(* ------ GeminiRoundRobin with one key, its failures counted (SpecKeys) ------ *)

InitKeys ==
    /\ apiKeys = <<KeyName(1)>>
    /\ questionTypes = QuestionTypes
    /\ pdfFiles = OneFile
    /\ clients = <<>>
    /\ currentIndex = 0
    /\ gw = IdleGw
    /\ ret = NoRet
    /\ pc = "new"
    /\ hist = [InitHist EXCEPT !.errRun = 0]
    /\ InitApp

SpecKeys == InitKeys /\ [][NextRotator]_vars

(* ------ GeminiRoundRobin with every step eventually taken (SpecCalls) ------- *)
(* Every request is answered or fails, every timer fires, and the caller goes   *)
(* on calling: a step that stays possible is taken.                             *)

SpecCalls == InitRotator /\ [][NextRotator]_vars /\ WF_vars(NextRotator)

(* ------------------------ parseGeminiResponse on its own ------------------------ *)
(* The parser applied to response texts of every shape, under every choice of      *)
(* enabled question types the form allows.                                          *)

\* what the model may write as one element of the array
ParserElems ==
    {Elem(t, st, o) : t \in {"MCQ", "NAT", "XYZ", ""},
                      st \in {Stmt(1, "s1"), EmptyStmt},
                      o \in {NullOptions, Options(<<"a", "b">>), Options(<<>>)}}
      \cup {NullElem, ScalarElem}

\* what generateContent may answer with
ParserTexts ==
    {BlankText, GarbageText, Text("prose", "array", <<>>),
     Text("bare", "null", <<NullElem>>), Text("bare", "scalar", <<ScalarElem>>)}
      \cup {Text("bare", "object", <<q>>) : q \in ParserElems \ {NullElem, ScalarElem}}
      \cup {Text(w, "array", e) : w \in {"bare", "fence"},
                                  e \in SeqsUpTo(ParserElems, MaxElems)}

InitParser ==
    /\ apiKeys = <<>>
    /\ questionTypes = QuestionTypes
    /\ pdfFiles = OneFile
    /\ clients = <<>>
    /\ currentIndex = 0
    /\ gw = IdleGw
    /\ ret = NoRet
    /\ pc = "form"
    /\ hist = InitHist
    /\ InitApp

\* updateQuestionType(index, 'enabled', value)
UpdateQuestionType ==
    /\ pc = "form"
    /\ \E index \in 1..Len(questionTypes), value \in BOOLEAN :
          questionTypes' = [questionTypes EXCEPT ![index].enabled = value]
    /\ UNCHANGED <<autoSave, pdfFiles, alert, rotVars, gwVars, pc, docVars, pg, hist>>

\* parseGeminiResponse(response, year), the exception it ends with kept if there is one
UnitParse ==
    /\ pc = "form"
    /\ \E response \in ParserTexts :
          LET r == ParseCatch(ParseTry(response, PdfYear))
          IN  /\ ret' = IF r.threw THEN ThrowRet("parseGeminiResponse", r.error)
                        ELSE [NoRet EXCEPT !.kind = "value", !.op = "parseGeminiResponse"]
              /\ pg' = [pg EXCEPT !.extractionResponse = response,
                                  !.questions = parseGeminiResponse(response, PdfYear)]
    /\ pc' = "parsed"
    /\ UNCHANGED <<questionTypes, autoSave, pdfFiles, alert, rotVars, gw, docVars, hist>>

\* the caller takes the questions
UnitParseReturn ==
    /\ pc = "parsed"
    /\ ret' = NoRet
    /\ pg' = InitPg
    /\ pc' = "form"
    /\ UNCHANGED <<questionTypes, autoSave, pdfFiles, alert, rotVars, gw, docVars, hist>>

NextParser ==
    \/ UpdateQuestionType
    \/ UnitParse
    \/ UnitParseReturn

SpecParser == InitParser /\ [][NextParser]_vars

(* ============================== claims ================================= *)

Count(seq, x) == Cardinality({k \in DOMAIN seq : seq[k] = x})

\* the page pass has just returned to processPdfs (its locals are still in view)
JustReturned == pc = "append" /\ result.returned /\ result.k = 0 /\ pg.outcome # "none"

\* the current attempt has a verification result
Verified == pg.verification.feedback # ""

\* the acceptance rule, on an effective score and the mismatch flag
Qualifies(score, mismatch) == score >= 99 \/ (score >= 95 /\ ~mismatch)

\* C1 - Acceptance monotonicity: a verified attempt is followed by another attempt, or
\* ends the pass as exhausted, only when its effective score does not qualify
\* (>= 99, or >= 95 without mismatch); a verified attempt that qualifies ends the pass
\* as accepted with that attempt's records; and once the pass is accepted no gateway
\* call is running or started for it.
AcceptanceMonotonicity ==
    /\ (Verified /\ pc = "sleep") =>
          ~Qualifies(pg.verificationScore, pg.questionMismatch)
    /\ (Verified /\ pg.outcome = "exhausted") =>
          /\ ~Qualifies(pg.verificationScore, pg.questionMismatch)
          /\ pg.attempt = pg.maxAttempts
    /\ (Verified /\ Qualifies(pg.verificationScore, pg.questionMismatch)) =>
          pg.outcome = "accepted"
    /\ pg.outcome = "accepted" =>
          /\ Verified /\ Qualifies(pg.verificationScore, pg.questionMismatch)
          /\ pc = "append" /\ gw.st = "idle" /\ ret.kind = "none"
          /\ result.pageProcessed /\ result.pageQuestions = pg.questions

\* C1 witness: the second attempt is accepted with 99 after a first attempt that was not
AcceptedOnSecondAttempt ==
    /\ pg.outcome = "accepted" /\ pg.attempt = 2
    /\ pg.expectedQuestionCount = 2 /\ Len(pg.questions) = 2
    /\ pg.verificationScore = 99

\* C2 - Mismatch penalty: on every verified attempt the score used for the decision is
\* max(0, raw - 20) when fewer questions than expected were extracted, and the raw
\* verify score otherwise; it is computed from that attempt's raw score alone.
MismatchPenaltyOnce ==
    Verified =>
       LET raw == pg.verification.score
           mismatch == pg.expectedQuestionCount > 0
                       /\ Len(pg.questions) < pg.expectedQuestionCount
       IN  pg.verificationScore =
              IF mismatch THEN (IF raw - 20 > 0 THEN raw - 20 ELSE 0) ELSE raw

\* C2 witness: a second penalized attempt in a row: raw 90 gives 70
PenalizedTwice ==
    /\ Verified /\ pg.attempt = 2 /\ pg.questionMismatch
    /\ pg.verification.score = 90 /\ pg.verificationScore = 70
    /\ pg.feedback.clauses # <<>>

\* C3 - Exhaustion never discards data (the claim as stated): when every attempt of the
\* pass parsed to at least one question and none was accepted, the pass returns the
\* records of the last attempt, pageProcessed true, shouldRetry false.
ExhaustionKeepsLastRecords ==
    (JustReturned /\ pg.allNonEmpty /\ pg.attempt = pg.maxAttempts
       /\ pg.outcome # "accepted") =>
          /\ result.pageQuestions = pg.questions
          /\ pg.questions # <<>>
          /\ result.pageProcessed
          /\ ~result.shouldRetry

\* C4 - Imperfect but present (the claim as stated): a pass returns no record only if
\* no attempt of the pass parsed to at least one question.
EmptyOnlyIfNeverParsed ==
    (JustReturned /\ result.pageQuestions = <<>>) => ~pg.anyNonEmpty

\* C5 - Zero-then-retry: a page whose first-pass attempts all parsed to nothing is on
\* retryPages exactly once; when the document is completed and the retry pass of such
\* a page returned nothing either, the page number is on skippedPages exactly once and
\* no record of the page is in the output.
ZeroThenRetry ==
    /\ \A p \in hist.allZeroFirst : Count(retryPages, p - 1) = 1
    /\ pdfStatus = "completed" =>
          \A p \in hist.allZeroFirst \cap hist.retryEmpty :
             /\ Count(skippedPages, p) = 1
             /\ \A k \in DOMAIN extractedQuestions :
                   extractedQuestions[k].question_statement.page # p

\* C5 witness: page 1 of two was empty in both passes, page 2 was not
PageOneSkipped ==
    /\ pdfStatus = "completed" /\ numPages = 2
    /\ hist.allZeroFirst = {1} /\ hist.retryEmpty = {1}
    /\ skippedPages = <<1>> /\ retryPages = <<0>>
    /\ extractedQuestions # <<>>

\* position of a statement on its page
StmtIndex(st) == CHOOSE k \in 1..MaxQuestions : PageStatements(st.page)[k] = st

\* C6 - Output ordering (the claim as stated): the output is ordered by page, and the
\* records of one page keep the order of the parser.
OutputOrderedByPage ==
    \A i, j \in DOMAIN extractedQuestions :
       i < j =>
          LET a == extractedQuestions[i].question_statement
              b == extractedQuestions[j].question_statement
          IN  /\ a.page <= b.page
              /\ a.page = b.page => StmtIndex(a) < StmtIndex(b)

\* the usable keys of a list, in insertion order
NonBlank(keys) == SelectSeq(keys, LAMBDA key : key \notin {"", " "})

\* C7 - Round-robin fairness: the n-th successful getNextClient call on a rotator of
\* K >= 1 usable keys reads cursor position (n-1) mod K and returns the client of the
\* usable key at that position, in insertion order.
RoundRobinFairness ==
    (pc = "unit" /\ hist.nCalls \in 1..(MaxCalls - 1)) =>
       LET keys == NonBlank(apiKeys)
           K == Len(keys)
       IN  /\ K >= 1
           /\ hist.lastPos = (hist.nCalls - 1) % K
           /\ hist.lastGet = keys[((hist.nCalls - 1) % K) + 1]

\* C7 witness: the (K+1)-th call on two usable keys and a blank one returns the first
\* usable key again
WrappedToFirstKey ==
    /\ pc = "unit" /\ Len(clients) = 2 /\ hist.nCalls = 3
    /\ hist.lastGet = clients[1] /\ hist.lastPos = 0
    /\ Len(apiKeys) = 3 /\ apiKeys[1] \in {"", " "}

\* C8 - Cursor invariant: on a rotator with K >= 1 clients the cursor is in 0..K-1.
CursorInRange ==
    Len(clients) >= 1 => currentIndex \in 0..(Len(clients) - 1)

\* C8 witness: the cursor has wrapped and a gateway method has just failed
CursorAfterFailure ==
    /\ pc = "unit" /\ Len(clients) = 2 /\ hist.nReqs >= 3
    /\ ret.kind = "throw" /\ ret.op = "fix" /\ currentIndex = 1

\* every entry of the key list is blank
AllBlank(keys) == \A k \in DOMAIN keys : keys[k] \in {"", " "}

\* C9 - Empty pool: a rotator built from blank keys only (or none) is built, holds no
\* client, every getNextClient call on it throws and leaves the cursor at 0; and no
\* rotator ever dispenses a blank key.
EmptyPoolFails ==
    /\ hist.lastGet \notin {"", " ", "undefined"}
    /\ (pc = "unit" /\ AllBlank(apiKeys)) =>
          /\ clients = <<>>
          /\ currentIndex = 0
          /\ hist.nCalls = 0
          /\ hist.lastGet \in {"none", "throw"}

\* C9 witness: getNextClient was called on a rotator built from two blank keys
EmptyPoolCalled ==
    /\ pc = "unit" /\ Len(apiKeys) = 2 /\ AllBlank(apiKeys)
    /\ hist.lastGet = "throw" /\ ret.error = "nokeys"

\* C10 - One credential per request: every request was issued with the client taken by
\* one getNextClient call made for it (as many successful calls as requests, the
\* request in flight holds the client at the position that call read, and the cursor
\* is one past it), and with K > 1 two successive requests use different positions.
OneCredentialPerRequest ==
    /\ hist.nReqs = hist.nCalls
    /\ gw.st = "flight" =>
          /\ hist.curReq = hist.lastPos
          /\ gw.client = clients[hist.curReq + 1]
          /\ currentIndex = (hist.curReq + 1) % Len(clients)
    /\ (Len(clients) > 1 /\ hist.prevReq # -1) => hist.prevReq # hist.curReq

\* C10 witness: the third request, a verify request, in flight on the first key after
\* the extract request on the second
VerifyOnNextKey ==
    /\ Len(clients) = 2 /\ gw.st = "flight" /\ gw.op = "verify"
    /\ hist.prevReq = 1 /\ hist.curReq = 0 /\ hist.nReqs = 3

\* min(retries, this.clients.length): the retry slots of one call
RetrySlots == IF Retries <= Len(clients) THEN Retries ELSE Len(clients)

\* requests issued so far by the gateway method called on its own (exact while the
\* request counter has not stopped counting)
CallRequests == hist.nReqs - hist.callStart
CallCounted == pc = "unit" /\ hist.nReqs < MaxCalls

\* C11 - Extract retry bound (the claim as stated): one analyzeImage call issues at
\* most N = min(retries, pool size) requests; when it raises an error other than the
\* network timeout, all N slots were spent on failed requests; a success returns at
\* once, within the N requests.
ExtractRetryBound ==
    CallCounted =>
       /\ gw.op = "analyze" => CallRequests <= RetrySlots
       /\ (ret.op = "analyze" /\ ret.kind = "throw" /\ ret.error # "timeout") =>
             CallRequests = RetrySlots
       /\ (ret.op = "analyze" /\ ret.kind = "value") =>
             CallRequests <= RetrySlots /\ gw.st = "idle"

\* an analyzeImage request in flight is answered with an empty text in this step
EmptyAnswer ==
    /\ gw.op = "analyze" /\ gw.st = "flight"
    /\ gw'.lastError = "empty" \/ (ret'.kind = "throw" /\ ret'.error = "empty")

\* C12 - Empty response is retryable (the claim as stated): an empty text received by
\* analyzeImage spends the slot, after which the next slot is tried or, when it was the
\* last slot, the call raises; and analyzeImage never returns an empty text.
EmptyResponseSpendsSlot ==
    /\ []((ret.op = "analyze" /\ ret.kind = "value") => ~IsEmptyText(ret.text))
    /\ [][EmptyAnswer =>
            \/ gw'.st = "wait" /\ gw'.i = gw.i + 1
            \/ gw'.st = "idle" /\ ret'.kind = "throw" /\ gw.i + 1 >= RetrySlots]_vars

\* C13 - Repair retry discipline (the claim as stated): when a fixExtraction call
\* raises an error other than the network timeout, it has issued requests on
\* N = min(retry budget, pool size) credentials.
RepairRetriesLikeExtract ==
    (CallCounted /\ ret.op = "fix" /\ ret.kind = "throw" /\ ret.error # "timeout") =>
       CallRequests >= RetrySlots

\* C14 - Verify never aborts the page (the claim as stated): verifyExtraction always
\* returns a result, never raises, and the result of a failure has score 0.
VerifyNeverRaises ==
    ret.op = "verify" =>
       /\ ret.kind = "value"
       /\ ret.feedback \in {"Verification error", "Verification failed"} => ret.score = 0

\* countQuestionsInImage has failed and its result is with processPageWithExtraction
CountFailed ==
    pc = "count" /\ ret.op = "count" /\ (ret.kind = "throw" \/ ret.failure # "none")

\* C15 - Count is advisory: a failed count that returns gives 0, and whenever the count
\* failed (0 returned for a request error or an unparsable answer, or a network-wait
\* timeout raised) the page pass goes on with expectedQuestionCount = 0 to attempt 1
\* and its analyzeImage call, and the document stays in processing.
CountIsAdvisory ==
    /\ []((ret.op = "count" /\ ret.failure # "none") =>
             (ret.kind = "value" /\ ret.count = 0))
    /\ [][CountFailed =>
            /\ pc' = "extract"
            /\ pg'.expectedQuestionCount = 0
            /\ pg'.attempt = 1 /\ pg'.pageNum = pg.pageNum /\ pg'.isRetry = pg.isRetry
            /\ gw'.op = "analyze" /\ gw'.st = "wait"
            /\ pdfStatus' = "processing"
            /\ UNCHANGED <<extractedQuestions, retryPages, skippedPages>>]_vars

\* C15 witness: the count of the second page raised the network timeout
CountRaisedOnSecondPage ==
    /\ CountFailed /\ ret.kind = "throw" /\ ret.error = "timeout"
    /\ pg.pageNum = 2 /\ ~pg.isRetry

\* the seconds at which waitForNetwork(maxWaitSeconds) reads navigator.onLine
PollSeconds(maxWaitSeconds) ==
    {t \in 0..MaxWaitSeconds : t % 2 = 0 /\ t < maxWaitSeconds}

\* C16 - Network wait precedes every request: a request is in flight only after the
\* waitForNetwork awaited for it returned normally; waitForNetwork returns normally
\* only one second after a poll that read navigator.onLine true, every earlier poll
\* having read false; and it raises the timeout only when every poll within the ceiling
\* read false and the ceiling has elapsed.
NetworkWaitPrecedesRequest ==
    /\ gw.st = "flight" => gw.wait = "ok"
    /\ ret.op = "waitForNetwork" =>
          LET w == ret.wait
              polls == PollSeconds(w.maxWaitSeconds)
          IN  /\ ret.kind = "value" =>
                    \E t \in polls :
                       /\ w.online[t]
                       /\ \A u \in polls : u < t => ~w.online[u]
                       /\ w.elapsed = t * 1000 + 1000
                       /\ w.reads = Cardinality({u \in polls : u <= t})
              /\ ret.kind = "throw" =>
                    /\ \A t \in polls : ~w.online[t]
                    /\ w.reads = Cardinality(polls)
                    /\ w.elapsed >= w.maxWaitSeconds * 1000

\* C16 witness: waitForNetwork(5) raised although the network was online between the
\* polls
TimeoutBetweenPolls ==
    /\ ret.op = "waitForNetwork" /\ ret.kind = "throw"
    /\ ret.wait.maxWaitSeconds = 5 /\ ret.wait.reads = 3
    /\ ret.wait.online[1] /\ ret.wait.online[3]

\* the pass has just returned because analyzeImage / fixExtraction threw on its last
\* attempt (no questions were parsed on that attempt)
ExtractThrewOnLastAttempt ==
    JustReturned /\ pg.outcome = "failed" /\ pg.questions = <<>>

\* C17 - Final-attempt exception (the claim as stated): when extract/repair throws on
\* the last attempt, a first-pass page returns no record and is pushed on retryPages,
\* whereas a retry-pass page does not return an ordinary empty result: the exception
\* propagates and the document is marked 'error'.
FinalAttemptException ==
    ExtractThrewOnLastAttempt =>
       IF pg.isRetry
       THEN pdfStatus = "error"
       ELSE /\ result.pageQuestions = <<>>
            /\ result.shouldRetry
            /\ retryPages # <<>> /\ retryPages[Len(retryPages)] = pg.pageNum - 1

\* the response text the parser was last run on, and whether the run has ended
Parsed == pc = "parsed"
ParsedText == pg.extractionResponse

\* the response is not a JSON value, is JSON null or a JSON scalar, is an array with a
\* null element, or is an empty array
ParseFailure(t) ==
    \/ t.wrap \in {"prose", "blank"}
    \/ t.kind \in {"invalid", "null", "scalar"}
    \/ t.kind = "array" /\ t.elems = <<>>
    \/ t.kind = "array" /\ \E k \in 1..Len(t.elems) : t.elems[k] = NullElem

\* C18 - Parser never throws: whatever the response text, parseGeminiResponse returns
\* a sequence (of at most as many records as the payload has elements) and raises no
\* exception; a parse failure gives the empty sequence.
ParserNeverThrows ==
    Parsed =>
       /\ ret.op = "parseGeminiResponse" /\ ret.kind = "value"
       /\ Len(pg.questions) <= Len(ParsedText.elems)
       /\ ParseFailure(ParsedText) => pg.questions = <<>>

\* C18 witness: an array whose first element is null and whose second is a well-formed
\* MCQ was parsed to the empty sequence
ParsedArrayWithNull ==
    /\ Parsed /\ ret.kind = "value" /\ pg.questions = <<>>
    /\ ParsedText = Text("bare", "array",
                         <<NullElem, Elem("MCQ", Stmt(1, "s1"), Options(<<"a", "b">>))>>)

\* the type is one of the form's types and its box is ticked
TypeEnabled(type) ==
    \E k \in 1..Len(questionTypes) : questionTypes[k].type = type /\ questionTypes[k].enabled
\* the marking scheme the form holds for the type
SchemeOf(type) ==
    LET qt == CHOOSE t \in {questionTypes[k] : k \in 1..Len(questionTypes)} : t.type = type
    IN  <<qt.correct_marks, qt.incorrect_marks, qt.skipped_marks, qt.partial_marks,
          qt.time_minutes>>
\* the element has a type and a statement, and its type is enabled
Survives(q) ==
    /\ q.question_type # "" /\ q.question_statement # EmptyStmt
    /\ TypeEnabled(q.question_type)

\* C19 - Enabled-type filter (the claim as stated): of a JSON array, or of a single
\* object taken as a one-element array, the parser returns exactly the elements that
\* have a type and a statement and whose type is enabled, in their order, each with
\* the marking scheme of its type; every other element is dropped, alone.
EnabledTypeFilter ==
    (Parsed /\ ParsedText.wrap \in {"bare", "fence"} /\ ParsedText.kind \in {"array", "object"}) =>
       LET kept == SelectSeq(ParsedText.elems, Survives)
       IN  /\ ret.kind = "value"
           /\ Len(pg.questions) = Len(kept)
           /\ \A k \in 1..Len(pg.questions) :
                 LET r == pg.questions[k]
                 IN  /\ r.question_type = kept[k].question_type
                     /\ r.question_statement = kept[k].question_statement
                     /\ TypeEnabled(r.question_type)
                     /\ <<r.correct_marks, r.incorrect_marks, r.skipped_marks,
                           r.partial_marks, r.time_minutes>> = SchemeOf(r.question_type)

\* C20 - Options invariant (the claim as stated): a record the parser produces has
\* non-empty options only if its type is MCQ or MSQ, and a record of type NAT or SUB
\* has null options.
OptionsInvariant ==
    Parsed =>
       \A k \in 1..Len(pg.questions) :
          LET r == pg.questions[k]
          IN  /\ (~r.options.isNull /\ r.options.items # <<>>) =>
                    r.question_type \in {"MCQ", "MSQ"}
              /\ r.question_type \in {"NAT", "SUB"} => r.options.isNull

\* C21 - Score range (the claim as stated): the score verifyExtraction returns, and the
\* effective score the page loop decides on, lie in 0..100.
ScoreRange ==
    /\ (ret.op = "verify" /\ ret.kind = "value") => ret.score \in 0..100
    /\ pg.verification.score \in 0..100
    /\ pg.verificationScore \in 0..100

\* the last question walked was saved and the save failed
SaveFailed == pc = "append" /\ result.save = "failed"
\* the status the file at hand has after the step, whether or not the loop over the
\* files has moved on from it
StatusAfterStep ==
    IF Len(pdfFiles'.done) > Len(pdfFiles.done)
    THEN pdfFiles'.done[Len(pdfFiles.done) + 1].status
    ELSE pdfStatus'

\* C22 - Persistence: with auto-save on, saveQuestionToSupabase has been called once
\* for each record of the output sequence, and with auto-save off never; after a
\* failed save the next record of the page is appended, or else the walk leaves the
\* page for the next pass, the next file or the end, and the file is not marked 'error'.
PersistOncePerRecord ==
    /\ [](hist.nSaves = IF autoSave THEN Len(extractedQuestions) ELSE 0)
    /\ [][SaveFailed =>
            IF result.k < Len(result.pageQuestions)
            THEN /\ extractedQuestions'
                      = Append(extractedQuestions, result.pageQuestions[result.k + 1])
                 /\ pc' = "append"
            ELSE /\ pc' \in {"count", "convert", "returned"}
                 /\ extractedQuestions' = extractedQuestions
                 /\ StatusAfterStep = IF pc' = "count" THEN "processing" ELSE "completed"]_vars

\* C22 witness: both records of a page are in the output, each saved once, the save of
\* the second failed, and a pending file follows in the list
FailedSaveBeforeNextFile ==
    /\ SaveFailed /\ result.k = 2
    /\ autoSave /\ hist.nSaves = 2 /\ Len(extractedQuestions) = 2
    /\ pdfFiles.rest # <<>> /\ pdfFiles.rest[1].status = "pending"

\* processPdfs has returned and the file it processed, a file with pages, is completed
FileCompleted == pc = "returned" /\ pdfStatus = "completed" /\ numPages > 0

\* C23 - Document summary (the claim as stated): when a file is completed a summary
\* has been shown, whether or not a page was skipped; it lists exactly the pages
\* whose retry pass gave no record, and its total is the number of records appended
\* to the output during the run.
DocumentSummary ==
    FileCompleted =>
       /\ alert.shown
       /\ {alert.skipped[k] : k \in 1..Len(alert.skipped)} = hist.retryEmpty
       /\ alert.total = Len(extractedQuestions)

\* the files of the list in their order, and the position of the file at hand
AllFiles == pdfFiles.done \o <<File(pdfStatus, numPages, alert)>> \o pdfFiles.rest
FileAt == Len(pdfFiles.done) + 1
\* the files after the one at hand that are still to be processed
ToProcess == {k \in (FileAt + 1)..Len(AllFiles) : AllFiles[k].status # "completed"}
\* the step is the one in which convertPdfToImages raises
RasterizingFails == pc = "convert" /\ StatusAfterStep = "error"

\* C24 - Document isolation: a file is marked 'error' only when rasterizing it raised,
\* so it has no page and no record; in that step the output is unchanged, every other
\* file keeps its status except the next file to process, which is set to
\* 'processing' and rasterized; and a file the loop has left never changes again.
DocumentIsolation ==
    /\ [](\A k \in 1..Len(AllFiles) : AllFiles[k].status = "error" => AllFiles[k].totalPages = 0)
    /\ [][\A k \in 1..(FileAt - 1) : AllFiles'[k] = AllFiles[k]]_vars
    /\ [][RasterizingFails =>
            /\ extractedQuestions' = extractedQuestions
            /\ AllFiles'[FileAt].status = "error"
            /\ IF ToProcess = {}
               THEN /\ pc' = "returned"
                    /\ \A k \in 1..Len(AllFiles) :
                          k # FileAt => AllFiles'[k].status = AllFiles[k].status
               ELSE LET next == CHOOSE k \in ToProcess : \A j \in ToProcess : k <= j
                    IN  /\ pc' = "convert"
                        /\ AllFiles'[next].status = "processing"
                        /\ \A k \in 1..Len(AllFiles) :
                              k \notin {FileAt, next}
                                 => AllFiles'[k].status = AllFiles[k].status]_vars

\* C24 witness: the first file of the list is in error, and the second file has been
\* rasterized and has a record in the output
ErrorThenRecords ==
    /\ pdfFiles.done # <<>> /\ pdfFiles.done[1].status = "error"
    /\ pdfStatus = "processing" /\ numPages = 1
    /\ extractedQuestions # <<>>

\* the step enters a page pass
PageEntered == pc # "count" /\ pc' = "count"

\* C25 - Strictly sequential processing: a request is in flight, or a gateway method
\* is running, only for the page of the one page pass that is awaiting it; the first
\* pass enters the pages one by one in document order; a retry pass is entered only
\* when the first pass has been through every page of the file, and the retry passes
\* follow the order of retryPages.
StrictlySequential ==
    /\ [](gw.st # "idle" =>
            /\ pc \in {"count", "extract", "verify"}
            /\ pg.outcome = "running" /\ gw.image = pg.imageData
            /\ ret.kind = "none")
    /\ [](pg.outcome = "running" => pc \in {"count", "extract", "verify", "sleep"})
    /\ [][PageEntered =>
            IF pg'.isRetry
            THEN /\ pageI' = numPages'
                 /\ retryI' >= 1 /\ retryI' = (IF retryI = 0 THEN 1 ELSE retryI + 1)
                 /\ pg'.pageNum = retryPages'[retryI'] + 1
            ELSE /\ retryI' = 0
                 /\ pageI' = (IF pc = "convert" THEN 0 ELSE pageI + 1)
                 /\ pg'.pageNum = pageI' + 1 /\ pg'.pageNum <= numPages']_vars

\* C25 witness: both pages of a file went through the first pass and were deferred;
\* the retry pass of page 1 is awaiting a response
RetryAfterBothPages ==
    /\ numPages = 2 /\ pageI = 2 /\ retryPages = <<0, 1>> /\ retryI = 1
    /\ pg.isRetry /\ pg.pageNum = 1 /\ gw.st = "flight"

\* the page pass has just returned records, which processPdfs appends and saves
ReturnedRecords == JustReturned /\ result.pageQuestions # <<>>

FallbackIsBest ==
    (JustReturned /\ pg.outcome = "exhausted") =>
       /\ result.pageQuestions = pg.questions
       /\ pg.verificationScore = pg.bestScore

\* the step issues a request
RequestSent == gw.st = "wait" /\ gw'.st = "flight"

\* C28 - Key disabling (the claim as stated): a key whose last 15 or more requests
\* all failed is not dispensed by the rotation (until its cooldown is over).
KeyDisabling ==
    [][(hist.errRun >= DisableAfter /\ RequestSent) => gw'.client # clients[1]]_vars

\* the gateway method the page pass is awaiting, or has just been answered by
CalledOp == IF ret.kind # "none" THEN ret.op ELSE gw.op

\* C29 - Extract-then-repair sequencing: attempt 1 calls analyzeImage and every later
\* attempt calls fixExtraction; the prior text passed to fixExtraction is the value of
\* extractionResponse, which changes only when an extract/repair call returns, to the
\* raw text returned.
ExtractThenRepair ==
    /\ [](pc = "extract" =>
            /\ CalledOp = (IF pg.attempt = 1 THEN "analyze" ELSE "fix")
            /\ pg.attempt > 1 => pg.prior = pg.extractionResponse)
    /\ [][pg'.extractionResponse # pg.extractionResponse =>
            \/ pc = "extract" /\ ret.kind = "value" /\ pg'.extractionResponse = ret.text
            \/ pg' = InitPg \/ pg'.attempt = 0]_vars
    /\ [][(pc = "extract" /\ pc' # "extract" /\ ret.kind = "value")
             => pg'.extractionResponse = ret.text]_vars

\* C29 witness: the third attempt of a pass is awaiting fixExtraction, called with the
\* text an earlier attempt returned, after the second attempt raised
RepairAfterRaise ==
    /\ pc = "extract" /\ pg.attempt = 3 /\ gw.op = "fix" /\ gw.st = "flight"
    /\ pg.feedback = GenericRetryFeedback
    /\ pg.prior = Text("bare", "array", PageElems(1, 1))

\* the outcomes that end a page pass
TerminalOutcomes == {"accepted", "exhausted", "empty", "failed"}

\* every gateway call returns or raises: a call in progress is always followed by
\* the gateway at rest
GatewayReturns == []<>(gw.st = "idle")

NetworkRetriesEnd == (gw.st = "catchwait") ~> (gw.st = "idle")

\* the extract, repair or verify call of the attempt has raised
AttemptRaised == pc \in {"extract", "verify"} /\ ret.kind = "throw"

\* C32 - Non-final exception is absorbed: when extract, repair or verify raises on an
\* attempt that is not the last of the pass, the pass does not return, feedback becomes
\* the generic retry message and the pass sleeps; the step after the sleep starts the
\* next attempt, numbered one higher, with that feedback.
NonFinalExceptionAbsorbed ==
    /\ [][(AttemptRaised /\ pg.attempt < pg.maxAttempts) =>
            /\ pc' = "sleep"
            /\ pg'.feedback = GenericRetryFeedback
            /\ pg'.attempt = pg.attempt /\ pg'.outcome = "running"
            /\ result' = result /\ ~result.returned
            /\ UNCHANGED <<retryPages, skippedPages, extractedQuestions, pdfStatus>>]_vars
    /\ [][(pc = "sleep" /\ pg.feedback = GenericRetryFeedback) =>
            /\ pc' = "extract"
            /\ pg'.attempt = pg.attempt + 1
            /\ pg'.feedback = pg.feedback]_vars

\* C32 witness: the verify call of attempt 1 raised and attempt 2 calls fixExtraction
VerifyRaisedThenRepair ==
    /\ pc = "extract" /\ pg.attempt = 2 /\ gw.op = "fix"
    /\ pg.feedback = GenericRetryFeedback
    /\ pg.allNonEmpty /\ pg.anyNonEmpty

\* C33 - Mismatch definition: on a verified attempt the mismatch flag holds exactly when
\* the expected count is positive and fewer questions were parsed; with an expected
\* count of 0, or with at least as many questions as expected, there is no mismatch,
\* the effective score is the raw score and the feedback has no mismatch clause.
MismatchDefinition ==
    Verified =>
       LET expected == pg.expectedQuestionCount
           parsed == Len(pg.questions)
       IN  /\ pg.questionMismatch <=> (expected > 0 /\ parsed < expected)
           /\ (expected = 0 \/ parsed >= expected) =>
                 /\ ~pg.questionMismatch
                 /\ pg.verificationScore = pg.verification.score
                 /\ pg.feedback = Feedback(pg.verification.feedback)

\* C33 witness: two questions parsed where one was expected, accepted at 95
OverExtractionAccepted ==
    /\ Verified /\ pg.expectedQuestionCount = 1 /\ Len(pg.questions) = 2
    /\ pg.verificationScore = 95 /\ pg.outcome = "accepted"

\* the feedback an attempt leaves for the next one, from what the attempt itself did:
\* it raised, it parsed to nothing, or it was verified
FeedbackOfAttempt ==
    IF ret.kind = "throw" THEN GenericRetryFeedback
    ELSE IF pc = "extract"
         THEN (IF pg.isRetry THEN CriticalRetryFeedback ELSE RescanFeedback)
         ELSE [base |-> ret.feedback,
               clauses |-> IF pg.expectedQuestionCount > 0
                              /\ Len(pg.questions) < pg.expectedQuestionCount
                           THEN <<<<pg.expectedQuestionCount, Len(pg.questions)>>>>
                           ELSE <<>>]

\* C34 - Feedback flow: an attempt that is followed by another leaves as feedback the
\* verify feedback of that attempt, with the mismatch clause once iff mismatch held, or
\* the fixed re-scan message of the pass when it parsed to nothing, or the generic
\* retry message when it raised; that feedback reaches the repair call of the next
\* attempt unchanged, and stays as it is while the call runs.
FeedbackFlow ==
    /\ [][(pc \in {"extract", "verify"} /\ pc' = "sleep") =>
             pg'.feedback = FeedbackOfAttempt]_vars
    /\ [][(pc = "sleep" /\ pc' # "sleep") =>
             pc' = "extract" /\ CalledOp' = "fix" /\ pg'.feedback = pg.feedback]_vars
    /\ [][(pc = "extract" /\ pc' = "extract") => pg'.feedback = pg.feedback]_vars

\* C34 witness: the repair call of attempt 3 gets the verify feedback of attempt 2 with
\* one mismatch clause, after an earlier attempt that left another message
RepairWithVerifyFeedback ==
    /\ pc = "extract" /\ pg.attempt = 3 /\ gw.op = "fix"
    /\ pg.feedback = [base |-> "model feedback", clauses |-> <<<<2, 1>>>>]
    /\ ~pg.allNonEmpty

\* the records of page p in the output, and the pages in the deferred queue
RecordsOfPage(p) ==
    {k \in DOMAIN extractedQuestions : extractedQuestions[k].question_statement.page = p}
QueuedPages == {retryPages[k] + 1 : k \in DOMAIN retryPages}

\* the first loop has appended the records of the last page of the file
FirstPassDone ==
    /\ pc = "append" /\ retryI = 0 /\ pageI + 1 = numPages
    /\ result.k = Len(result.pageQuestions)

\* C35 - Deferred queue membership: when the first pass of a document has completed, a
\* page is in retryPages if and only if the first pass gave no record of it; a page is
\* run through the retry pass only if it is in the queue and has no record in the
\* output; and the queue holds the pages in increasing order.
DeferredQueue ==
    /\ FirstPassDone =>
          \A p \in 1..numPages : (p \in QueuedPages) <=> (RecordsOfPage(p) = {})
    /\ (pg.isRetry /\ pg.outcome = "running") =>
          /\ pg.pageNum \in QueuedPages
          /\ RecordsOfPage(pg.pageNum) = {}
    /\ \A i, j \in DOMAIN retryPages : i < j => retryPages[i] < retryPages[j]

\* C35 witness: the first pass of a two-page file is over, page 1 gave records and
\* page 2 is the only page in the queue
SecondPageDeferred ==
    /\ FirstPassDone /\ numPages = 2
    /\ retryPages = <<1>> /\ RecordsOfPage(1) # {} /\ RecordsOfPage(2) = {}

\* C36 - At most two passes per page: no result of a retry pass has shouldRetry set;
\* once the retry loop has begun the deferred queue does not change; the retry loop
\* enters each element of the queue once, in order, and the queue names no page twice,
\* so that a page is run once by the first loop and at most once by the retry loop.
AtMostTwoPasses ==
    /\ []((pc = "append" /\ retryI >= 1) => ~result.shouldRetry)
    /\ []((pg.isRetry /\ pg.outcome # "none") => retryI >= 1)
    /\ [](\A i, j \in DOMAIN retryPages : i # j => retryPages[i] # retryPages[j])
    /\ [](Len(retryPages) <= numPages /\ retryI <= Len(retryPages) + 1)
    /\ [][retryI >= 1 => retryPages' = retryPages]_vars
    /\ [][(PageEntered /\ retryI' >= 1) =>
             /\ retryI' = retryI + 1
             /\ pg'.isRetry
             /\ pg'.pageNum = retryPages[retryI'] + 1]_vars

\* C36 witness: the retry pass of a page has returned no record, with shouldRetry false
RetryPassReturnedEmpty ==
    /\ pc = "append" /\ retryI >= 1 /\ pg.isRetry
    /\ pg.outcome \in {"empty", "failed"}
    /\ result.returned /\ result.pageQuestions = <<>> /\ ~result.shouldRetry

\* the pages recorded as skipped
SkippedSet == {skippedPages[k] : k \in DOMAIN skippedPages}

\* C37 - Page partition at completion: when the file is 'completed', each of its pages
\* has at least one record in the output or is listed in skippedPages, and not both;
\* skippedPages lists pages of the file only, none of them twice.
PagePartition ==
    (pc = "returned" /\ pdfStatus = "completed") =>
       /\ \A p \in 1..numPages : (RecordsOfPage(p) # {}) <=> (p \notin SkippedSet)
       /\ SkippedSet \subseteq 1..numPages
       /\ \A i, j \in DOMAIN skippedPages : i # j => skippedPages[i] # skippedPages[j]

\* C37 witness: a completed two-page file with records of page 2 and page 1 skipped
CompletedWithSkippedPage ==
    /\ pc = "returned" /\ pdfStatus = "completed" /\ numPages = 2
    /\ skippedPages = <<1>> /\ RecordsOfPage(2) # {} /\ RecordsOfPage(1) = {}

\* C38 - No early acceptance under mismatch: an attempt with a mismatch and a raw score
\* of at most 100 has an effective score of at most 80 and is not accepted; a pass that
\* had such an attempt and ends accepted is accepted on an attempt without mismatch
\* (otherwise it ends exhausted or without records).
NoEarlyAcceptanceUnderMismatch ==
    /\ (Verified /\ pg.questionMismatch /\ pg.verification.score <= FullScore) =>
          /\ pg.verificationScore <= FullScore - MismatchPenalty
          /\ pg.outcome # "accepted"
    /\ (pg.sawMismatch /\ pg.outcome = "accepted") => ~pg.questionMismatch
    /\ (pg.sawMismatch /\ pg.outcome \notin {"none", "running", "accepted"}) =>
          \/ pg.outcome = "exhausted" /\ pg.attempt = pg.maxAttempts
          \/ pg.outcome \in {"empty", "failed"} /\ result.pageQuestions = <<>>

\* C39 - Repair always has a prior extraction: whenever fixExtraction is called by an
\* attempt, the previous raw response passed to it is not the empty string.
RepairHasPrior ==
    (pc = "extract" /\ pg.attempt > 1 /\ CalledOp = "fix") => ~IsEmptyText(pg.prior)

====
